---- MODULE Spec2Model ----
(***************************************************************************)
(* Model of the ticker ingestion job: safe_request (HTTP GET with retry),  *)
(* collect_tickers (pagination), write_to_snowflake (row building and      *)
(* truncate-then-insert load), run_stock_job and the scheduler loop.       *)
(***************************************************************************)
EXTENDS Integers, Sequences, FiniteSets, TLC

(* ------------------------------ bounds --------------------------------- *)
\* pages collect_tickers is followed through in one run
MaxPages == 2
\* scheduled runs of run_stock_job
MaxRuns == 2
\* full insert batches in the inputs of the load specification
MaxBatches == 2
MaxRecs == 2

(* ------------------------- program constants --------------------------- *)
Retries == 5
Backoff == 2
batch_size == 500

EXAMPLE_TICKER_KEYS ==
    << "ticker", "name", "market", "locale", "primary_exchange", "type",
       "active", "currency_name", "cik", "composite_figi",
       "share_class_figi", "last_updated_utc" >>

ConfigNames ==
    {"account", "user", "password", "warehouse", "database", "schema", "role"}

(* ------------------------------ values --------------------------------- *)
\* JSON / Python values, all of one shape so that they can be compared.
\* A string is a sequence of one-character strings.
None == [kind |-> "none", s |-> <<>>, n |-> 0]
StrV(chars) == [kind |-> "str", s |-> chars, n |-> 0]
IntV(k) == [kind |-> "int", s |-> <<>>, n |-> k]
BoolV(b) == [kind |-> "bool", s |-> <<>>, n |-> IF b THEN 1 ELSE 0]
\* a JSON array of k elements
ListV(k) == [kind |-> "list", s |-> <<>>, n |-> k]

\* Python truthiness of a value
Truthy(v) ==
    CASE v.kind = "none" -> FALSE
      [] v.kind = "str" -> v.s # <<>>
      [] v.kind = "int" -> v.n # 0
      [] v.kind = "bool" -> v.n # 0
      [] OTHER -> v.n # 0

Digits == <<"0", "1", "2", "3", "4", "5", "6", "7", "8", "9">>
IsDigit(c) == \E i \in 1..10 : Digits[i] = c
DigitVal(c) == (CHOOSE i \in 1..10 : Digits[i] = c) - 1

RECURSIVE LStrip(_)
LStrip(s) == IF s # <<>> /\ Head(s) = " " THEN LStrip(Tail(s)) ELSE s

RECURSIVE RStrip(_)
RStrip(s) ==
    IF s # <<>> /\ s[Len(s)] = " " THEN RStrip(SubSeq(s, 1, Len(s) - 1)) ELSE s

\* digits with single underscores between them
ValidIntBody(b) ==
    /\ b # <<>>
    /\ IsDigit(b[1])
    /\ IsDigit(b[Len(b)])
    /\ \A i \in 1..Len(b) : IsDigit(b[i]) \/ b[i] = "_"
    /\ \A i \in 1..(Len(b) - 1) : b[i] = "_" => b[i + 1] # "_"

RECURSIVE DigitsValue(_, _)
DigitsValue(b, acc) ==
    IF b = <<>> THEN acc
    ELSE IF Head(b) = "_" THEN DigitsValue(Tail(b), acc)
    ELSE DigitsValue(Tail(b), 10 * acc + DigitVal(Head(b)))

\* int(str): ok = FALSE stands for ValueError
ParseInt(chars) ==
    LET t == RStrip(LStrip(chars))
        signed == t # <<>> /\ Head(t) \in {"-", "+"}
        body == IF signed THEN Tail(t) ELSE t
        sign == IF signed /\ Head(t) = "-" THEN -1 ELSE 1
    IN IF ValidIntBody(body)
       THEN [ok |-> TRUE, n |-> sign * DigitsValue(body, 0)]
       ELSE [ok |-> FALSE, n |-> 0]

(* ------------------------------ records -------------------------------- *)
\* A record of the API: a function from some of the keys to values.
RecA ==
    ("ticker" :> StrV(<<"A">>)) @@ ("name" :> StrV(<<"a">>)) @@
    ("active" :> BoolV(TRUE)) @@ ("cik" :> StrV(<<"0", "1", "2">>))
RecB ==
    ("ticker" :> StrV(<<"B">>)) @@ ("market" :> StrV(<<"s">>)) @@
    ("cik" :> StrV(<<"x">>))
\* the "results" lists a page can carry
ResultLists == {<<>>, <<RecA>>, <<RecB>>}

(* ----------------------------- responses ------------------------------- *)
\* next_url of a payload: absent, the empty string, or a URL given by its
\* query parameters
NoUrl == [present |-> FALSE, url |-> <<>>]
Url(q) == [present |-> TRUE, url |-> q]
NextUrls == {NoUrl, Url(<<>>), Url(<<"cursor=c">>)}

\* the body of a 200 response parsed as JSON: an object, an array (or
\* string), or null (or a number)
Payloads ==
    {[shape |-> "object", hasResults |-> TRUE, results |-> rs, next_url |-> u] :
        rs \in ResultLists, u \in NextUrls}
    \cup {[shape |-> "object", hasResults |-> FALSE, results |-> <<>>, next_url |-> u] :
        u \in NextUrls}
    \cup {[shape |-> sh, hasResults |-> FALSE, results |-> <<>>, next_url |-> NoUrl] :
        sh \in {"array", "null"}}
NoPayload == [shape |-> "none", hasResults |-> FALSE, results |-> <<>>, next_url |-> NoUrl]

\* Retry-After header values: absent, or a string
NoHeader == None
RetryAfterHeaders ==
    {NoHeader, StrV(<<"3">>), StrV(<<"0">>), StrV(<<"-", "1">>), StrV(<<"x">>)}

HttpResp(status, json, payload, hdr) ==
    [kind |-> "http", status |-> status, json |-> json, body |-> payload,
     retry_after |-> hdr]
NoResp == [kind |-> "none", status |-> 0, json |-> FALSE, body |-> NoPayload,
           retry_after |-> NoHeader]
ConnError == [kind |-> "exception", status |-> 0, json |-> FALSE,
              body |-> NoPayload, retry_after |-> NoHeader]

\* what one requests.get can produce
Responses ==
    {HttpResp(200, TRUE, p, NoHeader) : p \in Payloads}
    \cup {HttpResp(200, FALSE, NoPayload, NoHeader)}
    \cup {HttpResp(201, TRUE, NoPayload, NoHeader)}
    \cup {HttpResp(429, FALSE, NoPayload, h) : h \in RetryAfterHeaders}
    \cup {HttpResp(500, FALSE, NoPayload, NoHeader)}
    \cup {ConnError}

(* ------------------------------- state --------------------------------- *)
VARIABLES
    API_KEY,            \* TRUE iff POLYGON_API_KEY is set and non-empty
    SNOWFLAKE_CONFIG,   \* name -> TRUE iff the variable is set and non-empty
    SNOWFLAKE_TABLE,    \* TRUE iff the table name is non-empty
    pc,                 \* control point
    exc,                \* exception in flight or that ended the process
    runs,               \* runs of run_stock_job fired by the scheduler
    first,              \* TRUE while safe_request serves the initial request
    url,                \* query parameters of the URL being requested
    attempt,            \* loop variable of safe_request
    resp,               \* last outcome of requests.get
    gets,               \* GETs issued by the current call of safe_request
    sleeps,             \* time.sleep calls of the current call of safe_request
    lastSleep,          \* argument of the last time.sleep of safe_request
    data,               \* collect_tickers: the page payload
    tickers,            \* collect_tickers: accumulated records
    total_pages,        \* collect_tickers: page counter
    pagesLog,           \* payloads returned by safe_request in this run
    halt,               \* why collect_tickers returned
    data_to_insert,     \* write_to_snowflake: rows
    conn,               \* "none", "open" or "closed"
    i,                  \* write_to_snowflake: offset of the next batch
    rows_processed,     \* write_to_snowflake: rows inserted
    sinkLog,            \* sink calls of this run
    table,              \* contents of the destination table
    table0              \* the table when the run started

vars == << API_KEY, SNOWFLAKE_CONFIG, SNOWFLAKE_TABLE, pc, exc, runs, first,
           url, attempt, resp, gets, sleeps, lastSleep, data, tickers,
           total_pages, pagesLog, halt, data_to_insert, conn, i,
           rows_processed, sinkLog, table, table0 >>

envVars == << API_KEY, SNOWFLAKE_CONFIG, SNOWFLAKE_TABLE >>
reqVars == << url, attempt, resp, gets, sleeps, lastSleep >>
pageVars == << data, tickers, total_pages, pagesLog, halt >>
loadVars == << data_to_insert, conn, i, rows_processed, sinkLog, table, table0 >>

(* ------------------------------ helpers -------------------------------- *)
\* the environment variables the module reads at import
AllSet == [n \in ConfigNames |-> TRUE]
Envs ==
    {[cfg |-> AllSet, tbl |-> TRUE],
     [cfg |-> [AllSet EXCEPT !["warehouse"] = FALSE], tbl |-> TRUE],
     [cfg |-> AllSet, tbl |-> FALSE]}

\* for attempt in range(1, retries + 1)
InRangeOneMore(a) == a <= Retries + 1
InRange(a) == a <= Retries

\* the wait of the 429 branch
RetryAfter(hdr, a) ==
    IF hdr.kind = "str" /\ ParseInt(hdr.s).ok THEN ParseInt(hdr.s).n
    ELSE Backoff * a

\* resp.status_code == 200
IsSuccessCreated(status) == status = 201
IsSuccess(status) == status = 200

\* data.get("next_url") is truthy
HasNextKeyOnly(d) == d.next_url.present
HasNext(d) == d.next_url.present /\ d.next_url.url # <<>>

\* "apiKey=" in next_url
HasApiKey(q) == \E k \in 1..Len(q) : q[k] = "apiKey=K"
UrlWithKey(q) == IF HasApiKey(q) THEN q ELSE Append(q, "apiKey=K")

BaseParams ==
    << "market=stocks", "active=true", "order=asc", "limit=1000",
       "sort=ticker", "apiKey=K" >>

\* the row-building loop: value of one field of one record
CikRaises(value) == Truthy(value) /\ value.kind = "list"
CikValue(value) ==
    IF ~Truthy(value) THEN None
    ELSE IF value.kind = "str"
         THEN (IF ParseInt(value.s).ok THEN IntV(ParseInt(value.s).n) ELSE None)
         ELSE IntV(value.n)
FieldValue(rec, field) ==
    LET value == IF field \in DOMAIN rec THEN rec[field] ELSE None
    IN IF field = "cik" THEN CikValue(value) ELSE value
RowOf(rec) == [k \in 1..Len(EXAMPLE_TICKER_KEYS) |-> FieldValue(rec, EXAMPLE_TICKER_KEYS[k])]
RowRaises(rec) == "cik" \in DOMAIN rec /\ CikRaises(rec["cik"])
Transform(recs) == [k \in 1..Len(recs) |-> RowOf(recs[k])]
TransformRaises(recs) == \E k \in 1..Len(recs) : RowRaises(recs[k])

\* missing_vars
MissingVarsNoWarehouse(cfg, tbl) ==
    {n \in ConfigNames \ {"warehouse"} : ~cfg[n]} \cup (IF tbl THEN {} ELSE {"SNOWFLAKE_TABLE"})
MissingVars(cfg, tbl) == {n \in ConfigNames : ~cfg[n]} \cup (IF tbl THEN {} ELSE {"SNOWFLAKE_TABLE"})

\* data_to_insert[i:i + batch_size]
SliceShort(rows, from, size) ==
    SubSeq(rows, from + 1, IF from + size - 1 < Len(rows) THEN from + size - 1 ELSE Len(rows))
Slice(rows, from, size) ==
    SubSeq(rows, from + 1, IF from + size < Len(rows) THEN from + size ELSE Len(rows))

\* range(0, len(data_to_insert), batch_size) is exhausted at offset idx
LoopDoneEarly(idx, rows) == idx + batch_size >= Len(rows)
LoopDone(idx, rows) == idx >= Len(rows)

\* not tickers
NoTickersNever(t) == FALSE
NoTickers(t) == t = <<>>

\* what collect_tickers returns when safe_request raised SystemExit
OnFetchFailureDrop(isFirst, acc) == <<>>
OnFetchFailure(isFirst, acc) == IF isFirst THEN <<>> ELSE acc

SinkCall(op, ok, rows) == [op |-> op, ok |-> ok, rows |-> rows]

\* where a sink call leaves write_to_snowflake: on, or in the except
\* clauses and then finally
AfterSinkCallIgnore(ok, next) == next
AfterSinkCall(ok, next) == IF ok THEN next ELSE "w_finally"

\* what a successful statement does to the table
TableAfterNoTruncate(op, t, rows) == IF op = "insert" THEN t \o rows ELSE t
TableAfter(op, t, rows) ==
    IF op = "TRUNCATE" THEN <<>>
    ELSE IF op = "insert" THEN t \o rows
    ELSE t

\* if conn
ConnHeldNever(c) == FALSE
ConnHeld(c) == c = "open"

\* backoff * attempt
LinearBackoffFlat(a) == Backoff
LinearBackoff(a) == Backoff * a

\* the table as an earlier load left it
OldTable == Transform(<<RecB>>)

Crash(e) == pc' = "crashed" /\ exc' = e

(* ------------------------------ scheduler ------------------------------ *)
\* schedule.run_pending(): basic_job prints, then run_stock_job starts
SchedRunPending ==
    /\ pc = "sched"
    /\ runs < MaxRuns
    /\ runs' = runs + 1
    /\ pc' = "ct_start"
    /\ first' = TRUE
    /\ url' = <<>> /\ attempt' = 0 /\ resp' = NoResp
    /\ gets' = 0 /\ sleeps' = 0 /\ lastSleep' = 0
    /\ data' = NoPayload /\ tickers' = <<>> /\ total_pages' = 0
    /\ pagesLog' = <<>> /\ halt' = "none"
    /\ data_to_insert' = <<>> /\ conn' = "none" /\ i' = 0
    /\ rows_processed' = 0 /\ sinkLog' = <<>>
    /\ table0' = table
    /\ UNCHANGED << envVars, exc, table >>

(* ---------------------------- collect_tickers -------------------------- *)
\* enter safe_request(u)
CallSafeRequest(u) ==
    /\ url' = u /\ attempt' = 1 /\ resp' = NoResp
    /\ gets' = 0 /\ sleeps' = 0 /\ lastSleep' = 0
    /\ pc' = IF InRange(1) THEN "sr_get" ELSE "sr_raise"

CtNoKey ==
    /\ pc = "ct_start"
    /\ ~API_KEY
    /\ halt' = "no_key"
    /\ pc' = "w_start"
    /\ UNCHANGED << envVars, exc, runs, first, reqVars, data, tickers,
                    total_pages, pagesLog, loadVars >>

CtInitialRequest ==
    /\ pc = "ct_start"
    /\ API_KEY
    /\ first' = TRUE
    /\ CallSafeRequest(BaseParams)
    /\ UNCHANGED << envVars, exc, runs, pageVars, loadVars >>

(* ------------------------------ safe_request --------------------------- *)
\* requests.get(url, params=params, timeout=20)
SrGet ==
    /\ pc = "sr_get"
    /\ \E r \in Responses : resp' = r
    /\ gets' = gets + 1
    /\ pc' = "sr_resp"
    /\ UNCHANGED << envVars, exc, runs, first, url, attempt, sleeps,
                    lastSleep, pageVars, loadVars >>

\* time.sleep(d); continue
SleepAndContinue(d) ==
    /\ sleeps' = sleeps + 1
    /\ lastSleep' = d
    /\ attempt' = attempt + 1
    /\ pc' = IF InRange(attempt + 1) THEN "sr_get" ELSE "sr_raise"
    /\ exc' = exc

\* return resp.json(), the body being JSON
SrReturn ==
    /\ pc = "sr_resp"
    /\ resp.kind = "http" /\ IsSuccess(resp.status) /\ resp.json
    /\ data' = resp.body
    /\ pagesLog' = Append(pagesLog, resp.body)
    /\ pc' = "ct_data"
    /\ UNCHANGED << envVars, exc, runs, first, reqVars, tickers, total_pages,
                    halt, loadVars >>

\* resp.json() fails and the error is not a RequestException
\* (requests before 2.27, or simplejson installed): it leaves safe_request
SrBadJsonRaise ==
    /\ pc = "sr_resp"
    /\ resp.kind = "http" /\ IsSuccess(resp.status) /\ ~resp.json
    /\ Crash("JSONDecodeError")
    /\ UNCHANGED << envVars, runs, first, reqVars, pageVars, loadVars >>

\* resp.json() fails with requests.exceptions.JSONDecodeError, which is a
\* RequestException: the except clause sleeps and retries
SrBadJsonRetry ==
    /\ pc = "sr_resp"
    /\ resp.kind = "http" /\ IsSuccess(resp.status) /\ ~resp.json
    /\ SleepAndContinue(LinearBackoff(attempt))
    /\ UNCHANGED << envVars, runs, first, url, resp, gets, pageVars, loadVars >>

\* status 429: time.sleep(retry_after), which raises ValueError when negative
SrRateLimited ==
    /\ pc = "sr_resp"
    /\ resp.kind = "http" /\ ~IsSuccess(resp.status) /\ resp.status = 429
    /\ LET retry_after == RetryAfter(resp.retry_after, attempt)
       IN IF retry_after < 0
          THEN /\ Crash("ValueError")
               /\ UNCHANGED << attempt, sleeps, lastSleep >>
          ELSE SleepAndContinue(retry_after)
    /\ UNCHANGED << envVars, runs, first, url, resp, gets, pageVars, loadVars >>

\* any other status
SrHttpError ==
    /\ pc = "sr_resp"
    /\ resp.kind = "http" /\ ~IsSuccess(resp.status) /\ resp.status # 429
    /\ SleepAndContinue(LinearBackoff(attempt))
    /\ UNCHANGED << envVars, runs, first, url, resp, gets, pageVars, loadVars >>

\* requests.exceptions.RequestException
SrConnError ==
    /\ pc = "sr_resp"
    /\ resp.kind = "exception"
    /\ SleepAndContinue(LinearBackoff(attempt))
    /\ UNCHANGED << envVars, runs, first, url, resp, gets, pageVars, loadVars >>

\* raise SystemExit(...), caught by collect_tickers: the initial request
\* returns [], a later one breaks out of the loop and returns tickers
SrExhausted ==
    /\ pc = "sr_raise"
    /\ tickers' = OnFetchFailure(first, tickers)
    /\ halt' = IF first THEN "initial_failed" ELSE "page_failed"
    /\ pc' = "w_start"
    /\ UNCHANGED << envVars, exc, runs, first, reqVars, data, total_pages,
                    pagesLog, loadVars >>

(* ----------------------- collect_tickers, continued -------------------- *)
\* if "results" in data: tickers.extend(data["results"]); total_pages = 1
CtFirstPage ==
    /\ pc = "ct_data"
    /\ first
    /\ IF data.shape = "null"
       THEN /\ Crash("TypeError")
            /\ UNCHANGED << tickers, total_pages >>
       ELSE /\ tickers' = IF data.shape = "object" /\ data.hasResults
                          THEN tickers \o data.results ELSE tickers
            /\ total_pages' = 1
            /\ pc' = "ct_while"
            /\ exc' = exc
    /\ UNCHANGED << envVars, runs, first, reqVars, data, pagesLog, halt,
                    loadVars >>

\* while data.get("next_url"): sleep, then safe_request(url_with_key)
CtWhile ==
    /\ pc = "ct_while"
    /\ IF data.shape # "object"
       THEN /\ Crash("AttributeError")
            /\ UNCHANGED << first, reqVars, halt >>
       ELSE IF HasNext(data)
       THEN /\ Len(pagesLog) < MaxPages    \* the model follows MaxPages pages
            /\ first' = FALSE
            /\ CallSafeRequest(UrlWithKey(data.next_url.url))
            /\ UNCHANGED << exc, halt >>
       ELSE /\ halt' = "exhausted"
            /\ pc' = "w_start"
            /\ UNCHANGED << exc, first, reqVars >>
    /\ UNCHANGED << envVars, runs, data, tickers, total_pages, pagesLog,
                    loadVars >>

\* if "results" not in data: break; else extend and count the page
CtNextPage ==
    /\ pc = "ct_data"
    /\ ~first
    /\ IF data.shape = "null"
       THEN /\ Crash("TypeError")
            /\ UNCHANGED << tickers, total_pages, halt >>
       ELSE IF data.shape = "object" /\ data.hasResults
       THEN /\ tickers' = tickers \o data.results
            /\ total_pages' = total_pages + 1
            /\ pc' = "ct_while"
            /\ UNCHANGED << exc, halt >>
       ELSE /\ halt' = "no_results"
            /\ pc' = "w_start"
            /\ UNCHANGED << exc, tickers, total_pages >>
    /\ UNCHANGED << envVars, runs, first, reqVars, data, pagesLog, loadVars >>

(* --------------------------- write_to_snowflake ------------------------ *)
\* if not tickers: return
WEmpty ==
    /\ pc = "w_start"
    /\ NoTickers(tickers)
    /\ pc' = "job_done"
    /\ UNCHANGED << envVars, exc, runs, first, reqVars, pageVars, loadVars >>

\* if missing_vars: return
WMissing ==
    /\ pc = "w_start"
    /\ ~NoTickers(tickers)
    /\ MissingVars(SNOWFLAKE_CONFIG, SNOWFLAKE_TABLE) # {}
    /\ pc' = "job_done"
    /\ UNCHANGED << envVars, exc, runs, first, reqVars, pageVars, loadVars >>

\* build data_to_insert
WPrepare ==
    /\ pc = "w_start"
    /\ ~NoTickers(tickers)
    /\ MissingVars(SNOWFLAKE_CONFIG, SNOWFLAKE_TABLE) = {}
    /\ IF TransformRaises(tickers)
       THEN Crash("TypeError") /\ UNCHANGED data_to_insert
       ELSE /\ data_to_insert' = Transform(tickers)
            /\ pc' = "w_connect"
            /\ exc' = exc
    /\ UNCHANGED << envVars, runs, first, reqVars, pageVars, conn, i,
                    rows_processed, sinkLog, table, table0 >>

\* one call of the sink: it succeeds or raises; an error goes to the except
\* clauses, which log it, and then to finally
SinkStep(op, rows, next) ==
    /\ \E ok \in BOOLEAN :
        /\ sinkLog' = Append(sinkLog, SinkCall(op, ok, rows))
        /\ pc' = AfterSinkCall(ok, next)
        /\ conn' = IF op = "connect" /\ ok THEN "open" ELSE conn
        /\ table' = IF ok THEN TableAfter(op, table, rows) ELSE table
        /\ rows_processed' = IF op = "insert" /\ ok
                             THEN rows_processed + Len(rows) ELSE rows_processed
        /\ i' = IF op = "TRUNCATE" /\ ok THEN 0
                ELSE IF op = "insert" /\ ok THEN i + batch_size ELSE i
    /\ UNCHANGED << envVars, exc, runs, first, reqVars, pageVars,
                    data_to_insert, table0 >>

\* conn = snowflake.connector.connect(**SNOWFLAKE_CONFIG)
WConnect ==
    /\ pc = "w_connect"
    /\ SinkStep("connect", <<>>, "w_cursor")

\* cur = conn.cursor()
WCursor ==
    /\ pc = "w_cursor"
    /\ SinkStep("cursor", <<>>, "w_truncate")

\* cur.execute("TRUNCATE TABLE ...")
WTruncate ==
    /\ pc = "w_truncate"
    /\ SinkStep("TRUNCATE", <<>>, "w_insert")

\* for i in range(0, len(data_to_insert), batch_size): cur.executemany(...)
WInsert ==
    /\ pc = "w_insert"
    /\ ~LoopDone(i, data_to_insert)
    /\ SinkStep("insert", Slice(data_to_insert, i, batch_size), "w_insert")

\* conn.commit()
WCommit ==
    /\ pc = "w_insert"
    /\ LoopDone(i, data_to_insert)
    /\ SinkStep("commit", <<>>, "w_finally")

\* finally: if conn: conn.close()
WFinally ==
    /\ pc = "w_finally"
    /\ IF ConnHeld(conn)
       THEN /\ conn' = "closed"
            /\ sinkLog' = Append(sinkLog, SinkCall("close", TRUE, <<>>))
       ELSE UNCHANGED << conn, sinkLog >>
    /\ pc' = "job_done"
    /\ UNCHANGED << envVars, exc, runs, first, reqVars, pageVars,
                    data_to_insert, i, rows_processed, table, table0 >>

(* ----------------------------- run_stock_job --------------------------- *)
\* run_stock_job returns to the scheduler loop
JobDone ==
    /\ pc = "job_done"
    /\ pc' = "sched"
    /\ UNCHANGED << envVars, exc, runs, first, reqVars, pageVars, loadVars >>

(* ---------------------------- specifications --------------------------- *)
Init ==
    /\ API_KEY \in BOOLEAN
    /\ \E e \in Envs : SNOWFLAKE_CONFIG = e.cfg /\ SNOWFLAKE_TABLE = e.tbl
    /\ pc = "sched" /\ exc = "none" /\ runs = 0
    /\ first = TRUE
    /\ url = <<>> /\ attempt = 0 /\ resp = NoResp
    /\ gets = 0 /\ sleeps = 0 /\ lastSleep = 0
    /\ data = NoPayload /\ tickers = <<>> /\ total_pages = 0
    /\ pagesLog = <<>> /\ halt = "none"
    /\ data_to_insert = <<>> /\ conn = "none" /\ i = 0
    /\ rows_processed = 0 /\ sinkLog = <<>>
    /\ table = OldTable /\ table0 = table

Next ==
    \/ SchedRunPending
    \/ CtNoKey
    \/ CtInitialRequest
    \/ SrGet
    \/ SrReturn
    \/ SrBadJsonRaise
    \/ SrBadJsonRetry
    \/ SrRateLimited
    \/ SrHttpError
    \/ SrConnError
    \/ SrExhausted
    \/ CtFirstPage
    \/ CtWhile
    \/ CtNextPage
    \/ WEmpty
    \/ WMissing
    \/ WPrepare
    \/ WConnect
    \/ WCursor
    \/ WTruncate
    \/ WInsert
    \/ WCommit
    \/ WFinally
    \/ JobDone

Spec == Init /\ [][Next]_vars

\* The load stage on its own: write_to_snowflake called with record lists
\* around the batch boundaries.
RecN(k) ==
    ("ticker" :> IntV(k)) @@
    ("cik" :> IF k % 2 = 1 THEN StrV(<<"0", "1", "2">>) ELSE StrV(<<"x">>))
LoadSizes ==
    {0, 1} \cup {b * batch_size + d : b \in 1..MaxBatches, d \in {-1, 0, 1}}
LoadInputs == {[k \in 1..n |-> RecN(k)] : n \in LoadSizes}

InitLoad ==
    /\ API_KEY = TRUE
    /\ \E e \in Envs : SNOWFLAKE_CONFIG = e.cfg /\ SNOWFLAKE_TABLE = e.tbl
    /\ pc = "w_start" /\ exc = "none" /\ runs = 1
    /\ first = FALSE
    /\ url = <<>> /\ attempt = 0 /\ resp = NoResp
    /\ gets = 0 /\ sleeps = 0 /\ lastSleep = 0
    /\ data = NoPayload /\ tickers \in LoadInputs /\ total_pages = 1
    /\ pagesLog = <<>> /\ halt = "exhausted"
    /\ data_to_insert = <<>> /\ conn = "none" /\ i = 0
    /\ rows_processed = 0 /\ sinkLog = <<>>
    /\ table \in {<<>>, OldTable} /\ table0 = table

\* write_to_snowflake is called again with the same records
LoadAgain ==
    /\ pc = "job_done"
    /\ runs < MaxRuns
    /\ runs' = runs + 1
    /\ pc' = "w_start"
    /\ data_to_insert' = <<>> /\ conn' = "none" /\ i' = 0
    /\ rows_processed' = 0 /\ sinkLog' = <<>>
    /\ table0' = table
    /\ UNCHANGED << envVars, exc, first, reqVars, pageVars, table >>

NextLoad ==
    \/ LoadAgain
    \/ WEmpty
    \/ WMissing
    \/ WPrepare
    \/ WConnect
    \/ WCursor
    \/ WTruncate
    \/ WInsert
    \/ WCommit
    \/ WFinally

SpecLoad == InitLoad /\ [][NextLoad]_vars

\* The row-building loop on its own: write_to_snowflake called with short
\* record lists over every kind of raw cik value.
CikValues ==
    {None, StrV(<<>>), StrV(<<"0", "1", "2">>), StrV(<<"x">>),
     StrV(<<" ", "7", " ">>), StrV(<<"-", "5">>), StrV(<<"1", "_", "0">>),
     IntV(0), IntV(42), BoolV(TRUE), ListV(0), ListV(1)}
RowRecs ==
    {("ticker" :> StrV(<<"T">>)) @@ ("active" :> BoolV(FALSE))}
    \cup {("ticker" :> StrV(<<"T">>)) @@ ("cik" :> v) : v \in CikValues}
RowInputs ==
    UNION {[1..n -> RowRecs] : n \in 1..MaxRecs}

InitRows ==
    /\ API_KEY = TRUE
    /\ SNOWFLAKE_CONFIG = AllSet /\ SNOWFLAKE_TABLE = TRUE
    /\ pc = "w_start" /\ exc = "none" /\ runs = 1
    /\ first = FALSE
    /\ url = <<>> /\ attempt = 0 /\ resp = NoResp
    /\ gets = 0 /\ sleeps = 0 /\ lastSleep = 0
    /\ data = NoPayload /\ tickers \in RowInputs /\ total_pages = 1
    /\ pagesLog = <<>> /\ halt = "exhausted"
    /\ data_to_insert = <<>> /\ conn = "none" /\ i = 0
    /\ rows_processed = 0 /\ sinkLog = <<>>
    /\ table = <<>> /\ table0 = table

NextRows == WPrepare

SpecRows == InitRows /\ [][NextRows]_vars

\* The fetch stage against a server whose pages carry no records, followed
\* without a limit on the number of pages. The page counter and the log of
\* pages are kept up to MaxPages and left alone beyond it: the loop reads
\* neither.
EmptyPageResponses ==
    {r \in Responses : r.body.results = <<>>}

PgGet ==
    /\ pc = "sr_get"
    /\ \E r \in EmptyPageResponses : resp' = r
    /\ gets' = gets + 1
    /\ pc' = "sr_resp"
    /\ UNCHANGED << envVars, exc, runs, first, url, attempt, sleeps,
                    lastSleep, pageVars, loadVars >>

PgReturn ==
    /\ pc = "sr_resp"
    /\ resp.kind = "http" /\ IsSuccess(resp.status) /\ resp.json
    /\ data' = resp.body
    /\ pagesLog' = IF Len(pagesLog) < MaxPages
                   THEN Append(pagesLog, resp.body) ELSE pagesLog
    /\ pc' = "ct_data"
    /\ UNCHANGED << envVars, exc, runs, first, reqVars, tickers, total_pages,
                    halt, loadVars >>

\* while data.get("next_url"): nothing else bounds the loop
PgWhile ==
    /\ pc = "ct_while"
    /\ IF data.shape # "object"
       THEN /\ Crash("AttributeError")
            /\ UNCHANGED << first, reqVars, halt >>
       ELSE IF HasNext(data)
       THEN /\ first' = FALSE
            /\ CallSafeRequest(UrlWithKey(data.next_url.url))
            /\ UNCHANGED << exc, halt >>
       ELSE /\ halt' = "exhausted"
            /\ pc' = "w_start"
            /\ UNCHANGED << exc, first, reqVars >>
    /\ UNCHANGED << envVars, runs, data, tickers, total_pages, pagesLog,
                    loadVars >>

PgNextPage ==
    /\ pc = "ct_data"
    /\ ~first
    /\ IF data.shape = "null"
       THEN /\ Crash("TypeError")
            /\ UNCHANGED << tickers, total_pages, halt >>
       ELSE IF data.shape = "object" /\ data.hasResults
       THEN /\ tickers' = tickers \o data.results
            /\ total_pages' = IF total_pages < MaxPages
                              THEN total_pages + 1 ELSE total_pages
            /\ pc' = "ct_while"
            /\ UNCHANGED << exc, halt >>
       ELSE /\ halt' = "no_results"
            /\ pc' = "w_start"
            /\ UNCHANGED << exc, tickers, total_pages >>
    /\ UNCHANGED << envVars, runs, first, reqVars, data, pagesLog, loadVars >>

InitPaging ==
    /\ API_KEY = TRUE
    /\ SNOWFLAKE_CONFIG = AllSet /\ SNOWFLAKE_TABLE = TRUE
    /\ pc = "ct_start" /\ exc = "none" /\ runs = 1
    /\ first = TRUE
    /\ url = <<>> /\ attempt = 0 /\ resp = NoResp
    /\ gets = 0 /\ sleeps = 0 /\ lastSleep = 0
    /\ data = NoPayload /\ tickers = <<>> /\ total_pages = 0
    /\ pagesLog = <<>> /\ halt = "none"
    /\ data_to_insert = <<>> /\ conn = "none" /\ i = 0
    /\ rows_processed = 0 /\ sinkLog = <<>>
    /\ table = OldTable /\ table0 = table

NextPaging ==
    \/ CtInitialRequest
    \/ PgGet
    \/ PgReturn
    \/ SrBadJsonRaise
    \/ SrBadJsonRetry
    \/ SrRateLimited
    \/ SrHttpError
    \/ SrConnError
    \/ SrExhausted
    \/ CtFirstPage
    \/ PgWhile
    \/ PgNextPage
    \/ WEmpty

\* the interpreter runs the next statement whenever there is one
SpecPaging == InitPaging /\ [][NextPaging]_vars /\ WF_vars(NextPaging)

TypeOK ==
    /\ pc \in {"sched", "ct_start", "sr_get", "sr_resp", "sr_raise", "ct_data",
               "ct_while", "w_start", "w_connect", "w_cursor", "w_truncate",
               "w_insert", "w_finally", "job_done", "crashed"}
    /\ attempt \in 0..(Retries + 1)
    /\ conn \in {"none", "open", "closed"}

(* ------------------------------- claims -------------------------------- *)
\* records of the pages safe_request returned, in page order
RECURSIVE ConcatResults(_)
ConcatResults(log) ==
    IF log = <<>> THEN <<>>
    ELSE (IF Head(log).shape = "object" /\ Head(log).hasResults
          THEN Head(log).results ELSE <<>>) \o ConcatResults(Tail(log))

\* rows handed to executemany by the sink calls of a log, in call order
RECURSIVE InsertedRows(_)
InsertedRows(log) ==
    IF log = <<>> THEN <<>>
    ELSE (IF Head(log).op = "insert" THEN Head(log).rows ELSE <<>>)
         \o InsertedRows(Tail(log))

IsPrefix(a, b) == Len(a) <= Len(b) /\ SubSeq(b, 1, Len(a)) = a

Rank(op) ==
    CASE op = "connect" -> 1
      [] op = "cursor" -> 2
      [] op = "TRUNCATE" -> 3
      [] op = "insert" -> 4
      [] op = "commit" -> 5
      [] OTHER -> 6

\* C1: one call of safe_request issues at most Retries GETs, and every
\* outcome (429, other status, transport failure) uses up one value of the
\* same attempt counter: the GETs issued so far number attempt - 1 between
\* attempts and attempt while a response is being handled.
C1_AttemptsBounded ==
    /\ gets <= Retries
    /\ pc \in {"sr_get", "sr_raise"} => gets = attempt - 1
    /\ pc = "sr_resp" => gets = attempt

C1_Witness ==
    /\ pc = "sr_raise"
    /\ gets = Retries
    /\ resp.kind = "http" /\ resp.status = 429

\* C2: safe_request raises (SystemExit, or the ValueError of time.sleep)
\* only when Retries attempts have been made.
C2_FailsOnlyWhenExhausted ==
    (pc = "sr_raise" \/ (pc = "crashed" /\ exc = "ValueError"))
        => (gets = Retries /\ attempt = Retries + 1)

\* the wait the claim prescribes for a 429 on attempt k
ClaimedWait(hdr, k) ==
    IF hdr.kind = "str" /\ ParseInt(hdr.s).ok /\ ParseInt(hdr.s).n > 0
    THEN ParseInt(hdr.s).n
    ELSE Backoff * k

\* C3: once a 429 received on attempt k has been handled, safe_request has
\* slept the Retry-After hint if it is a positive integer, Backoff * k
\* otherwise.
C3_RateLimitWait ==
    (resp.kind = "http" /\ resp.status = 429 /\ pc # "sr_resp")
        => (pc # "crashed" /\ lastSleep = ClaimedWait(resp.retry_after, attempt - 1))

\* C4 as stated: a response with any 2xx status and a JSON body makes
\* safe_request return at once, without a sleep or another GET.
C4_Any2xxReturns ==
    [][(pc = "sr_resp" /\ resp.kind = "http" /\ resp.status \in 200..299
            /\ resp.json)
        => (pc' = "ct_data" /\ data' = resp.body /\ sleeps' = sleeps
            /\ gets' = gets /\ attempt' = attempt)]_vars

\* C4, amended: a response with status 200 and a JSON body makes
\* safe_request return that payload at once, without a sleep or another GET.
C4_Status200Returns ==
    [][(pc = "sr_resp" /\ resp.kind = "http" /\ resp.status = 200 /\ resp.json)
        => (pc' = "ct_data" /\ data' = resp.body /\ sleeps' = sleeps
            /\ gets' = gets /\ attempt' = attempt)]_vars

C4_Witness ==
    /\ pc = "ct_data"
    /\ resp.kind = "http" /\ resp.status = 200
    /\ data = resp.body
    /\ gets = 3 /\ sleeps = 2

\* C5: when the initial request exhausted its retries, collect_tickers has
\* returned [] and the run makes no sink call and leaves the table as it was.
C5_InitialFailureLoadsNothing ==
    halt = "initial_failed"
        => /\ tickers = <<>>
           /\ sinkLog = <<>>
           /\ conn = "none"
           /\ table = table0
           /\ pc \in {"w_start", "job_done", "sched"}

C5_Witness ==
    /\ halt = "initial_failed"
    /\ pc = "sched"
    /\ gets = Retries
    /\ table # <<>>

\* C6: when the request of a later page exhausted its retries,
\* collect_tickers has returned the records of the pages fetched before it,
\* in page order, and the load works on exactly their rows: the rows built,
\* the rows inserted, and the table after a commit.
C6_PartialResultLoaded ==
    halt = "page_failed"
        => /\ Len(pagesLog) >= 1
           /\ tickers = ConcatResults(pagesLog)
           /\ pc \in {"w_start", "w_connect", "w_cursor", "w_truncate",
                      "w_insert", "w_finally", "job_done", "sched"}
           /\ pc # "w_start" /\ sinkLog # <<>>
                => data_to_insert = Transform(ConcatResults(pagesLog))
           /\ IsPrefix(InsertedRows(sinkLog), Transform(ConcatResults(pagesLog)))
           /\ (\E k \in 1..Len(sinkLog) : sinkLog[k].op = "commit" /\ sinkLog[k].ok)
                => table = Transform(ConcatResults(pagesLog))

C6_Witness ==
    /\ halt = "page_failed"
    /\ pc = "job_done"
    /\ tickers # <<>>
    /\ \E k \in 1..Len(sinkLog) : sinkLog[k].op = "commit" /\ sinkLog[k].ok
    /\ table = Transform(tickers)

\* collect_tickers is done with the page in data: it fetches again, returns
\* or fails
PageDecided ==
    pc \in {"ct_data", "ct_while"} /\ pc' \notin {"ct_data", "ct_while"}

\* C7 as stated: after a fetched page, collect_tickers fetches a next page
\* exactly when the page carries a non-empty next_url.
C7_ContinuesIffNextUrl ==
    [][PageDecided
        => ((pc' = "sr_get") <=>
            (data.shape = "object" /\ data.next_url.present
             /\ data.next_url.url # <<>>))]_vars

\* C7, amended: after a fetched page, collect_tickers fetches a next page
\* exactly when the page carries a non-empty next_url and is the first page
\* or has the "results" key.
C7_ContinuesIffNextUrlAndResults ==
    [][PageDecided
        => ((pc' = "sr_get") <=>
            (data.shape = "object" /\ data.next_url.present
             /\ data.next_url.url # <<>> /\ (first \/ data.hasResults)))]_vars

C7_Witness ==
    /\ pc = "w_start"
    /\ halt = "no_results"
    /\ data.shape = "object"
    /\ data.next_url.present /\ data.next_url.url # <<>>
    /\ Len(pagesLog) = 2

\* C8: after a fetched page without the "results" key, the first page
\* included, collect_tickers returns the records collected so far and
\* fetches nothing more.
C8_MissingResultsStops ==
    [][(PageDecided /\ data.shape = "object" /\ ~data.hasResults)
        => (pc' = "w_start" /\ tickers' = tickers)]_vars

\* C9: with no tickers, or with a sink parameter missing, write_to_snowflake
\* makes no sink call: no connection, and the table stays as it was.
C9_NoSinkCallWithoutInput ==
    (\/ tickers = <<>>
     \/ \E n \in ConfigNames : ~SNOWFLAKE_CONFIG[n]
     \/ ~SNOWFLAKE_TABLE)
        => (sinkLog = <<>> /\ conn = "none" /\ table = table0
            /\ pc \in {"w_start", "job_done"})

C9_Witness ==
    /\ pc = "job_done"
    /\ tickers # <<>>
    /\ ~SNOWFLAKE_CONFIG["warehouse"]
    /\ sinkLog = <<>>

\* C10: the sink calls of a load come in the order connect, cursor,
\* TRUNCATE, insert batches, commit, close, each but insert at most once;
\* the batches follow the row order; commit comes only after a successful
\* TRUNCATE and the successful insertion of every row.
C10_LoadOrder ==
    /\ sinkLog # <<>> => sinkLog[1].op = "connect"
    /\ \A k \in 1..(Len(sinkLog) - 1) :
        \/ Rank(sinkLog[k].op) < Rank(sinkLog[k + 1].op)
        \/ sinkLog[k].op = "insert" /\ sinkLog[k + 1].op = "insert"
    /\ IsPrefix(InsertedRows(sinkLog), data_to_insert)
    /\ \A k \in 1..Len(sinkLog) :
        sinkLog[k].op = "commit"
            => /\ \A j \in 1..(k - 1) : sinkLog[j].ok
               /\ \E j \in 1..(k - 1) : sinkLog[j].op = "TRUNCATE"
               /\ InsertedRows(SubSeq(sinkLog, 1, k - 1)) = data_to_insert

C10_Witness ==
    /\ pc = "job_done"
    /\ \E k \in 1..Len(sinkLog) : sinkLog[k].op = "commit" /\ sinkLog[k].ok
    /\ Len(data_to_insert) = 2 * batch_size + 1
    /\ Cardinality({k \in 1..Len(sinkLog) : sinkLog[k].op = "insert"}) = 3

\* a load has committed
Committed(log) == \E k \in 1..Len(log) : log[k].op = "commit" /\ log[k].ok

\* the executemany calls of a log, in call order
Batches(log) == SelectSeq(log, LAMBDA c : c.op = "insert")

\* C11: after a failed TRUNCATE or a failed insert batch the load makes no
\* further sink call but the close of the connection: no statement, no
\* commit, no second try of the failed statement.
C11_SinkErrorAborts ==
    \A k \in 1..Len(sinkLog) :
        (sinkLog[k].op \in {"TRUNCATE", "insert"} /\ ~sinkLog[k].ok)
            => /\ \A j \in (k + 1)..Len(sinkLog) : sinkLog[j].op = "close"
               /\ pc \in {"w_finally", "job_done"}
               /\ ~Committed(sinkLog)

C11_Witness ==
    /\ pc = "job_done"
    /\ Len(sinkLog) >= 6
    /\ sinkLog[Len(sinkLog)].op = "close"
    /\ sinkLog[Len(sinkLog) - 1].op = "insert"
    /\ ~sinkLog[Len(sinkLog) - 1].ok
    /\ sinkLog[Len(sinkLog) - 2].op = "insert"

\* C12: a connection is open only inside the try block, and when
\* write_to_snowflake has returned a connection it acquired is closed, by
\* one close that is the last sink call.
C12_ConnectionReleased ==
    /\ conn = "open" => pc \in {"w_cursor", "w_truncate", "w_insert", "w_finally"}
    /\ pc = "job_done"
        => /\ conn # "open"
           /\ (\E k \in 1..Len(sinkLog) : sinkLog[k].op = "connect" /\ sinkLog[k].ok)
                => /\ conn = "closed"
                   /\ sinkLog[Len(sinkLog)].op = "close"
                   /\ Cardinality({k \in 1..Len(sinkLog) : sinkLog[k].op = "close"}) = 1

C12_Witness ==
    /\ pc = "job_done"
    /\ conn = "closed"
    /\ Len(sinkLog) = 3
    /\ sinkLog[2].op = "cursor" /\ ~sinkLog[2].ok
    /\ sinkLog[3].op = "close"

\* C13: no error of a run reaches the scheduler loop: the process never
\* ends with an uncaught exception.
C13_SchedulerSurvives == pc # "crashed"

\* C14: with the API key or a sink parameter missing, a run makes no GET
\* and no sink call.
C14_MissingConfigNoIO ==
    (\/ ~API_KEY
     \/ \E n \in ConfigNames : ~SNOWFLAKE_CONFIG[n]
     \/ ~SNOWFLAKE_TABLE)
        => (gets = 0 /\ sinkLog = <<>>)

\* C16: whatever the table held, a load that committed leaves exactly the
\* rows of its records in it, so a second load of the same records leaves
\* the table as the first one did.
C16_LoadIdempotent ==
    (pc = "job_done" /\ Committed(sinkLog))
        => /\ table = Transform(tickers)
           /\ (runs >= 2 /\ table0 = Transform(tickers)) => table = table0

C16_Witness ==
    /\ pc = "job_done"
    /\ runs = 2
    /\ Committed(sinkLog)
    /\ Len(tickers) > batch_size
    /\ table0 = Transform(tickers)
    /\ table = table0

\* an attempt that ended with a status other than 200 and 429, or with a
\* transport failure, and is about to be handled
LinearFailure ==
    /\ pc = "sr_resp"
    /\ \/ resp.kind = "exception"
       \/ resp.kind = "http" /\ resp.status \notin {200, 429}

\* C18: such a failure on attempt k makes safe_request sleep Backoff * k
\* before its next step: at least the wait of the first attempt, and at
\* least the wait before it when that was Backoff * (k - 1).
C18_LinearBackoff ==
    [][LinearFailure
        => /\ sleeps' = sleeps + 1
           /\ lastSleep' = Backoff * attempt
           /\ lastSleep' >= Backoff * 1
           /\ (attempt > 1 /\ lastSleep = Backoff * (attempt - 1))
                => lastSleep' >= lastSleep
           /\ attempt' = attempt + 1]_vars

C18_Witness ==
    /\ pc = "sr_get"
    /\ resp.kind = "exception"
    /\ attempt = 4
    /\ sleeps = 3
    /\ lastSleep = 3 * Backoff

\* C19: the batches are the slices of 500 rows of data_to_insert in row
\* order, the last one possibly shorter; a load that reached commit made
\* ceil(n / 500) of them, which together are all n rows, and counted n rows.
C19_Batches ==
    LET b == Batches(sinkLog)
        n == Len(data_to_insert)
    IN /\ \A k \in 1..Len(b) :
            /\ Len(b[k].rows) \in 1..batch_size
            /\ k < Len(b) => Len(b[k].rows) = batch_size
            /\ \A r \in 1..Len(b[k].rows) :
                b[k].rows[r] = data_to_insert[(k - 1) * batch_size + r]
       /\ (\E k \in 1..Len(sinkLog) : sinkLog[k].op = "commit")
            => /\ Len(b) = (n + batch_size - 1) \div batch_size
               /\ InsertedRows(sinkLog) = data_to_insert
               /\ rows_processed = n

C19_Witness ==
    /\ pc = "job_done"
    /\ Committed(sinkLog)
    /\ Len(data_to_insert) = batch_size + 1
    /\ Len(Batches(sinkLog)) = 2
    /\ Len(Batches(sinkLog)[2].rows) = 1
    /\ rows_processed = batch_size + 1

\* C20: every failed attempt of safe_request is followed by a sleep: between
\* attempts and when the budget is exhausted there are as many sleeps as
\* GETs, Retries of them when SystemExit is raised, and an error of the 429
\* branch leaves safe_request after the sleep of its attempt.
C20_SleepAfterEveryFailure ==
    /\ pc \in {"sr_get", "sr_raise"} => sleeps = gets
    /\ pc = "sr_raise" => sleeps = Retries
    /\ (pc = "crashed" /\ exc = "ValueError") => sleeps = gets

\* the cik of a row is an integer or null
IsIntOrNull(v) == v.kind \in {"int", "none"}

\* C15: the row-building step never raises, whatever the raw cik values;
\* the rows it builds are one per record in record order, with an integer
\* or null cik and every other field as in the record, null when absent.
C15_RowBuildingTotal ==
    /\ pc # "crashed"
    /\ pc = "w_connect"
        => /\ Len(data_to_insert) = Len(tickers)
           /\ \A k \in 1..Len(tickers) : \A f \in 1..Len(EXAMPLE_TICKER_KEYS) :
                LET field == EXAMPLE_TICKER_KEYS[f]
                    out == data_to_insert[k][f]
                IN IF field = "cik" THEN IsIntOrNull(out)
                   ELSE IF field \in DOMAIN tickers[k] THEN out = tickers[k][field]
                   ELSE out = None

\* C17: every run returns to its caller, whatever the server answers.
C17_RunReturns == (pc = "ct_start") ~> (pc \in {"job_done", "crashed"})

====
